---- MODULE Spec2Model ----
(***************************************************************************)
(* Model of the feedup content pipeline of unipulse-backend:               *)
(*   - the ArticleStaging store and its admin operations (feedup/admin.py),*)
(*   - ingest_articles and summarize_articles (feedup/utils.py),           *)
(*   - the process_articles promotion command,                             *)
(*   - the research fetcher's deduplication (research_fetchers.py),        *)
(*   - the Dev.to / Medium / Google Scholar fetch calls.                   *)
(*   - DataIngestionService.fetch_and_store_research (ingestion/service.py)*)
(*     and the summarize_articles command.                                 *)
(* and of the OTP login of uniapp (RequestOTPView, VerifyOTPView).         *)
(***************************************************************************)
EXTENDS Integers, Sequences, FiniteSets, TLC

VARIABLES
    staging,    \* ArticleStaging table: sequence of rows, index = primary key
    articles,   \* Article table: sequence of rows, index = primary key
    lastOp,     \* name of the operation that ran last
    ret,        \* what that operation returned / reported
    fetcher,    \* a fetcher call: its input and what it gave back
    workers,    \* promotion runs executing side by side
    research,   \* ResearchUpdate table: sequence of rows
    svc,        \* the last fetch_and_store_research call: input and outcome
    otps,       \* OTPVerification table (uniapp): sequence of rows
    auth        \* the last RequestOTP / VerifyOTP call: input and response

vars == <<staging, articles, lastOp, ret, fetcher, workers, research, svc, otps, auth>>

-----------------------------------------------------------------------------
(* Bounds of the model *)

MaxBatch == 2       \* items one ingest run fetches
MaxStaging == 3     \* rows the staging table may hold
MaxArticles == 3    \* rows the Article table may hold

URLs == {"u1", "u2"}
Titles == {"t1", "t2"}

\* summary values: "" is the empty summary, "ai" one written by the
\* enrichment call, "op" one only the operator types in the admin form
EmptySummary == ""
AiSummary == "ai"
Summaries == {EmptySummary, AiSummary, "op"}

-----------------------------------------------------------------------------
(* Helpers *)

RECURSIVE SeqsUpTo(_, _)
SeqsUpTo(S, n) ==
    IF n = 0 THEN {<<>>}
    ELSE LET shorter == SeqsUpTo(S, n - 1)
         IN  shorter \cup {Append(q, x) : q \in {r \in shorter : Len(r) = n - 1}, x \in S}

RECURSIVE SetToSeq(_)
SetToSeq(S) ==
    IF S = {} THEN <<>>
    ELSE LET m == CHOOSE x \in S : \A y \in S : x <= y
         IN  <<m>> \o SetToSeq(S \ {m})

\* ret: raised = the operation ended in an exception / validation error,
\* count and failed = the counters it reports, batch = the list it worked on,
\* newArticles = Article rows it inserted, runs = 2 when a promotion run
\* directly follows another one, whose count is then prevCount
\* created = the created flag get_or_create gave for each item of batch,
\* outcomes = how the run left each candidate of batch ("promoted", "skipped",
\* "failed"), faults = the statement of each candidate's step that raised,
\* prevOp = the operation a promotion run came directly after
\* fetcher: who = the fetcher called, source = what its source answered,
\* all_results = the batch the research fetcher collected, unique / doubled =
\* the batch and the batch twice over after deduplication (done tells which
\* were computed), outcome = "returned" or "raised", result = the list returned,
\* filtered = the batch after deduplication and then the quality filter, again
\* = the same computed once more, gate_first = the batch after the quality
\* filter and then deduplication
NoFetch == [who |-> "none", source |-> <<>>, all_results |-> <<>>,
            unique |-> <<>>, doubled |-> <<>>, done |-> {},
            outcome |-> "none", result |-> <<>>,
            filtered |-> <<>>, gate_first |-> <<>>, again |-> <<>>]

NoRet == [raised |-> FALSE, count |-> 0, failed |-> 0, batch |-> <<>>,
          created |-> <<>>, newArticles |-> 0, runs |-> 0, prevCount |-> 0,
          outcomes |-> <<>>, faults |-> <<>>, prevOp |-> "none"]

\* svc: max_papers = the service's limit, fetchers = what each configured
\* fetcher's fetch() did, calls = the lists handed to _store_research_data with
\* the count each call returned (added) and the rows the table grew by during
\* the call (rows), fallback = the fallback mock data was used,
\* raised = the call ended in an exception, total_added = the value returned,
\* runs = calls made so far
NoSvc == [max_papers |-> 0, fetchers |-> <<>>, calls |-> <<>>,
          fallback |-> FALSE, raised |-> FALSE, total_added |-> 0, runs |-> 0]

\* auth: op = the view called, email / otp / user_type = what the request
\* carried, status = the HTTP status of the response, tokens = the response
\* holds an access and a refresh token, replay = the call presented a code
\* that an earlier VerifyOTP call had accepted for the email with no OTP
\* stored for the email since, used = the (email, code) pairs accepted with no
\* OTP stored for the email since
NoAuth == [op |-> "none", email |-> "", otp |-> "", user_type |-> "",
           status |-> 0, tokens |-> FALSE, replay |-> FALSE, used |-> {}]

\* empty tables, nothing called yet
Init ==
    /\ staging = <<>>
    /\ articles = <<>>
    /\ lastOp = "none"
    /\ ret = NoRet
    /\ fetcher = NoFetch
    /\ workers = <<>>
    /\ research = <<>>
    /\ svc = NoSvc
    /\ otps = <<>>
    /\ auth = NoAuth

-----------------------------------------------------------------------------
(* feedup/utils.py: ingest_articles *)

\* a fetched article dict, as the ingestors build it
FetchedItems == [source_url : URLs, title : Titles]

\* what devto.fetch_articles() + medium.fetch_articles() evaluates to: a list,
\* or an exception that leaves ingest_articles before its loop
FetchOutcomes(items) ==
    [raised : {FALSE}, items : SeqsUpTo(items, MaxBatch)]
        \cup {[raised |-> TRUE, items |-> <<>>]}

\* the schema's defaults of the ArticleStaging fields that get_or_create is
\* not given
StagingFieldDefaults ==
    [summary |-> EmptySummary, ai_generated |-> FALSE,
     approved |-> FALSE, processed |-> FALSE]

\* the row get_or_create() inserts: defaults from the item, the model's
\* defaults for summary / ai_generated / approved / processed
NewStagingRowFromItem(art) ==
    [source_url |-> art.source_url, title |-> art.title,
     summary |-> art.summary, ai_generated |-> FALSE,
     approved |-> art.approved, processed |-> FALSE]

NewStagingRow(art) ==
    [source_url |-> art.source_url, title |-> art.title,
     summary |-> StagingFieldDefaults.summary,
     ai_generated |-> StagingFieldDefaults.ai_generated,
     approved |-> StagingFieldDefaults.approved,
     processed |-> StagingFieldDefaults.processed]

MatchingRows(st, url) == {i \in DOMAIN st : st[i].source_url = url}

\* ArticleStaging.objects.get_or_create(source_url=..., defaults=...):
\* one match -> (obj, False); none -> insert, (obj, True);
\* several -> MultipleObjectsReturned
GetOrCreateAlwaysCreates(st, art) ==
    [staging |-> Append(st, NewStagingRow(art)), created |-> TRUE, raised |-> FALSE]

GetOrCreateUpdates(st, art) ==
    LET n == Cardinality(MatchingRows(st, art.source_url))
    IN  IF n = 0
        THEN [staging |-> Append(st, NewStagingRow(art)), created |-> TRUE, raised |-> FALSE]
        ELSE [staging |-> [i \in DOMAIN st |->
                              IF st[i].source_url = art.source_url
                              THEN [st[i] EXCEPT !.title = art.title] ELSE st[i]],
              created |-> FALSE, raised |-> FALSE]

GetOrCreate(st, art) ==
    LET n == Cardinality(MatchingRows(st, art.source_url))
    IN  IF n = 0
        THEN [staging |-> Append(st, NewStagingRow(art)), created |-> TRUE, raised |-> FALSE]
        ELSE IF n = 1
        THEN [staging |-> st, created |-> FALSE, raised |-> FALSE]
        ELSE [staging |-> st, created |-> FALSE, raised |-> TRUE]

\* an item marked storable = FALSE is one for which a statement of the try
\* block raises (a value the database refuses, a key the dict lacks)
ItemRaises(art) == "storable" \in DOMAIN art /\ ~art.storable

\* the try block of the loop for one item: anything it raises is caught
StoreItem(st, art) ==
    IF ItemRaises(art)
    THEN [staging |-> st, created |-> FALSE, raised |-> TRUE]
    ELSE GetOrCreate(st, art)

\* the loop of ingest_articles over the fetched list
RECURSIVE IngestLoop(_, _)
IngestLoop(items, acc) ==
    IF items = <<>> THEN acc
    ELSE LET r == StoreItem(acc.staging, Head(items))
         IN  IngestLoop(Tail(items),
                 [staging |-> r.staging,
                  saved_count |-> IF r.created /\ ~r.raised
                                  THEN acc.saved_count + 1 ELSE acc.saved_count,
                  errors |-> IF r.raised THEN acc.errors + 1 ELSE acc.errors,
                  created |-> Append(acc.created, r.created)])

IngestResult(st, items) ==
    IngestLoop(items, [staging |-> st, saved_count |-> 0, errors |-> 0,
                       created |-> <<>>])

IngestArticlesOf(items) ==
    \E f \in FetchOutcomes(items) :
        LET res == IngestResult(staging, f.items)
        IN  /\ Len(res.staging) <= MaxStaging
            /\ staging' = res.staging
            /\ lastOp' = "ingest_articles"
            /\ ret' = [NoRet EXCEPT !.raised = f.raised,
                                    !.count = res.saved_count,
                                    !.failed = res.errors,
                                    !.batch = f.items,
                                    !.created = res.created]
            /\ UNCHANGED <<articles, fetcher, workers, research, svc, otps, auth>>

\* in the full system the fetched items differ in their URL only
IngestArticles == IngestArticlesOf({a \in FetchedItems : a.title = "t1"})

-----------------------------------------------------------------------------
(* feedup/admin.py: bulk actions of ArticleStagingAdmin.  sel is the queryset *)
(* the operator ticked in the change list.  The message shown to the         *)
(* operator is kept (in ret) for mark_processed only.                        *)

Selections == SUBSET (DOMAIN staging) \ {{}}

UpdateRows(st, sel, f(_)) ==
    [i \in DOMAIN st |-> IF i \in sel THEN f(st[i]) ELSE st[i]]

SetApprovedAsProcessed(row) == [row EXCEPT !.processed = TRUE]

SetApproved(row) == [row EXCEPT !.approved = TRUE]
SetUnapproved(row) == [row EXCEPT !.approved = FALSE]
SetUnprocessed(row) == [row EXCEPT !.processed = FALSE]
ClearedSummary(row) == [row EXCEPT !.summary = EmptySummary]

\* the body of mark_processed's loop: a row without summary is skipped
MarkProcessedIgnoresSummary(row) == [row EXCEPT !.processed = TRUE]

MarkProcessedRow(row) ==
    IF row.summary = EmptySummary THEN row ELSE [row EXCEPT !.processed = TRUE]

AdminDone(op, n, failed) ==
    /\ lastOp' = op
    /\ ret' = [NoRet EXCEPT !.count = n, !.failed = failed]
    /\ UNCHANGED <<articles, fetcher, workers, research, svc, otps, auth>>

MarkApproved ==
    \E sel \in Selections :
        /\ staging' = UpdateRows(staging, sel, SetApproved)
        /\ AdminDone("mark_approved", 0, 0)

MarkUnapproved ==
    \E sel \in Selections :
        /\ staging' = UpdateRows(staging, sel, SetUnapproved)
        /\ AdminDone("mark_unapproved", 0, 0)

MarkProcessed ==
    \E sel \in Selections :
        LET withSummary == {i \in sel : staging[i].summary # EmptySummary}
        IN  /\ staging' = UpdateRows(staging, sel, MarkProcessedRow)
            /\ lastOp' = "mark_processed"
            /\ ret' = [NoRet EXCEPT !.count = Cardinality(withSummary),
                                    !.failed = Cardinality(sel \ withSummary),
                                    !.batch = SetToSeq(sel)]
            /\ UNCHANGED <<articles, fetcher, workers, research, svc, otps, auth>>

MarkUnprocessed ==
    \E sel \in Selections :
        /\ staging' = UpdateRows(staging, sel, SetUnprocessed)
        /\ lastOp' = "mark_unprocessed"
        /\ ret' = [NoRet EXCEPT !.batch = SetToSeq(sel)]
        /\ UNCHANGED <<articles, fetcher, workers, research, svc, otps, auth>>

ClearSummary ==
    \E sel \in Selections :
        /\ staging' = UpdateRows(staging, sel, ClearedSummary)
        /\ AdminDone("clear_summary", 0, 0)

-----------------------------------------------------------------------------
(* feedup/admin.py: the change form.  The operator submits summary, approved *)
(* and processed for row pk; ArticleStagingAdminForm.clean validates, then   *)
(* save_model stores the object.                                              *)

\* ArticleStagingAdminForm.clean: TRUE when the form is valid
FormClean(summary, processed) == ~(processed /\ summary = EmptySummary)

\* save_model: the object as it is saved
SaveModel(old, summary, approved, processed) ==
    LET obj == [old EXCEPT !.summary = summary, !.approved = approved,
                           !.processed = processed]
        changed == processed # old.processed
    IN  IF changed /\ obj.processed /\ obj.summary = EmptySummary
        THEN [obj EXCEPT !.processed = FALSE]
        ELSE obj

FormSaveOf(typed) ==
    \E pk \in DOMAIN staging, summary \in typed,
       approved \in BOOLEAN, processed \in BOOLEAN :
        /\ staging' = IF FormClean(summary, processed)
                      THEN [staging EXCEPT
                                ![pk] = SaveModel(@, summary, approved, processed)]
                      ELSE staging
        /\ lastOp' = "form_save"
        /\ ret' = [NoRet EXCEPT !.raised = ~FormClean(summary, processed)]
        /\ UNCHANGED <<articles, fetcher, workers, research, svc, otps, auth>>

\* in the full system the operator clears the summary or types one
FormSave == FormSaveOf({EmptySummary, AiSummary})

-----------------------------------------------------------------------------
(* feedup/utils.py summarize_articles and the admin's summarization run.     *)
(* ok is the set of rows for which the enrichment call returns a usable      *)
(* summary; for the others it fails (short content, API error, empty reply). *)

SummarizeArticle(row, ok) ==
    IF ok THEN [row EXCEPT !.summary = AiSummary, !.ai_generated = TRUE] ELSE row

\* rows the run attempts: approved and without a summary
SummarizeTargets(st) ==
    {i \in DOMAIN st : st[i].approved /\ st[i].summary = EmptySummary}

SummarizeArticlesView ==
    \E ok \in SUBSET (DOMAIN staging) :
        LET targets == SummarizeTargets(staging)
        IN  /\ staging' = [i \in DOMAIN staging |->
                              IF i \in targets
                              THEN SummarizeArticle(staging[i], i \in ok)
                              ELSE staging[i]]
            /\ AdminDone("summarize_articles", Cardinality(targets \cap ok),
                         Cardinality(targets \ ok))

-----------------------------------------------------------------------------
(* feedup/management/commands/process_articles.py: Command.handle, one run.  *)
(* Sequential case: the run is alone, each candidate's transaction commits   *)
(* before the next begins.                                                    *)

\* ArticleStaging.objects.filter(approved=True, processed=False), in primary
\* key order
IsCandidateApprovedOnly(row) == row.approved

IsCandidate(row) == row.approved /\ ~row.processed

ArticlesToProcess(st) == SetToSeq({i \in DOMAIN st : IsCandidate(st[i])})

\* Article.objects.filter(source_url=staged_article.source_url).exists()
ArticleExistsNever(arts, url) == FALSE

ArticleExists(arts, url) == \E k \in DOMAIN arts : arts[k].source_url = url

\* Article.objects.create(...) from the staged article's fields
NewArticle(staged, pk) ==
    [source_url |-> staged.source_url, title |-> staged.title,
     summary |-> staged.summary, staging_article |-> pk]

\* staged_article.processed = True; staged_article.save()
SaveProcessedForgotten(st, pk, staged) == st

SaveProcessed(st, pk, staged) ==
    [st EXCEPT ![pk] = [staged EXCEPT !.processed = TRUE]]

\* the body of the loop for one candidate: db is the database and the run's
\* counter, staged the object the queryset loaded for primary key pk
PromoteStepRecreates(db, pk, staged) ==
    [db EXCEPT !.articles = Append(@, NewArticle(staged, pk)),
               !.staging = SaveProcessed(@, pk, staged),
               !.success_count = @ + 1]

PromoteStepCountsSkipped(db, pk, staged) ==
    IF ArticleExists(db.articles, staged.source_url)
    THEN [db EXCEPT !.staging = SaveProcessed(@, pk, staged),
                    !.success_count = @ + 1]
    ELSE [db EXCEPT !.articles = Append(@, NewArticle(staged, pk)),
                    !.staging = SaveProcessed(@, pk, staged),
                    !.success_count = @ + 1]

PromoteStepSkipLeavesFlag(db, pk, staged) ==
    IF ArticleExists(db.articles, staged.source_url)
    THEN db
    ELSE [db EXCEPT !.articles = Append(@, NewArticle(staged, pk)),
                    !.staging = SaveProcessed(@, pk, staged),
                    !.success_count = @ + 1]

PromoteStep(db, pk, staged) ==
    IF ArticleExists(db.articles, staged.source_url)
    THEN [db EXCEPT !.staging = SaveProcessed(@, pk, staged)]
    ELSE [db EXCEPT !.articles = Append(@, NewArticle(staged, pk)),
                    !.staging = SaveProcessed(@, pk, staged),
                    !.success_count = @ + 1]

RECURSIVE PromoteLoop(_, _, _)
PromoteLoop(cands, loaded, db) ==
    IF cands = <<>> THEN db
    ELSE PromoteLoop(Tail(cands), loaded,
                     PromoteStep(db, Head(cands), loaded[Head(cands)]))

ProcessArticles ==
    LET cands == ArticlesToProcess(staging)
        res == PromoteLoop(cands, staging,
                           [staging |-> staging, articles |-> articles,
                            success_count |-> 0])
    IN  /\ Len(res.articles) <= MaxArticles
        /\ staging' = res.staging
        /\ articles' = res.articles
        /\ lastOp' = "process_articles"
        /\ ret' = [NoRet EXCEPT
                       !.count = res.success_count,
                       !.newArticles = Len(res.articles) - Len(articles),
                       !.batch = cands,
                       !.runs = IF lastOp = "process_articles" THEN 2 ELSE 1,
                       !.prevCount = IF lastOp = "process_articles"
                                     THEN ret.count ELSE 0,
                       !.prevOp = lastOp]
        /\ UNCHANGED <<fetcher, workers, research, svc, otps, auth>>

-----------------------------------------------------------------------------
(* feedup/ingestion/research_fetchers.py: EnhancedGoogleScholarFetcher.      *)
(* Titles, authors and summaries are strings, handled character by character *)
(* as the regular expressions of the code handle them.                       *)

MaxPapers == 3      \* max_papers of the fetcher; the length of a batch

UpperToLower ==
    ("A" :> "a") @@ ("B" :> "b") @@ ("C" :> "c") @@ ("D" :> "d") @@ ("E" :> "e") @@
    ("F" :> "f") @@ ("G" :> "g") @@ ("H" :> "h") @@ ("I" :> "i") @@ ("J" :> "j") @@
    ("K" :> "k") @@ ("L" :> "l") @@ ("M" :> "m") @@ ("N" :> "n") @@ ("O" :> "o") @@
    ("P" :> "p") @@ ("Q" :> "q") @@ ("R" :> "r") @@ ("S" :> "s") @@ ("T" :> "t") @@
    ("U" :> "u") @@ ("V" :> "v") @@ ("W" :> "w") @@ ("X" :> "x") @@ ("Y" :> "y") @@
    ("Z" :> "z")

LowerChars == {UpperToLower[c] : c \in DOMAIN UpperToLower}
DigitChars == {"0", "1", "2", "3", "4", "5", "6", "7", "8", "9"}
\* \w and \s of the regular expressions
WordChars == DOMAIN UpperToLower \cup LowerChars \cup DigitChars \cup {"_"}
SpaceChars == {" ", "\t", "\n"}

CharAt(s, i) == SubSeq(s, i, i)

\* str.lower()
RECURSIVE LowerFrom(_, _)
LowerFrom(s, i) ==
    IF i > Len(s) THEN ""
    ELSE LET c == CharAt(s, i)
         IN  (IF c \in DOMAIN UpperToLower THEN UpperToLower[c] ELSE c)
                 \o LowerFrom(s, i + 1)

Lower(s) == LowerFrom(s, 1)

\* re.sub(r'[^\w\s]', '', s)
RECURSIVE StripPunctFrom(_, _)
StripPunctFrom(s, i) ==
    IF i > Len(s) THEN ""
    ELSE LET c == CharAt(s, i)
         IN  (IF c \in WordChars \cup SpaceChars THEN c ELSE "")
                 \o StripPunctFrom(s, i + 1)

StripPunct(s) == StripPunctFrom(s, 1)

\* ' '.join(s.split()): out is the text built so far, gap tells that white
\* space was met since the last word character
RECURSIVE CollapseFrom(_, _, _, _)
CollapseFrom(s, i, out, gap) ==
    IF i > Len(s) THEN out
    ELSE LET c == CharAt(s, i)
         IN  IF c \in SpaceChars
             THEN CollapseFrom(s, i + 1, out, TRUE)
             ELSE CollapseFrom(s, i + 1,
                      IF gap /\ out # "" THEN out \o " " \o c ELSE out \o c,
                      FALSE)

CollapseSpaces(s) == CollapseFrom(s, 1, "", FALSE)

\* the normalized title of _smart_deduplication and _generate_robust_hash
NormalizeTitle(title) == CollapseSpaces(StripPunct(Lower(title)))

HashAuthorsLen == 50

Min(a, b) == IF a < b THEN a ELSE b

\* _generate_robust_hash: the md5 digest of "title|date|authors[:50]" stands
\* for the text it digests (a digest is equal exactly when the text is)
GenerateRobustHash(title, authors, pub_date) ==
    <<NormalizeTitle(title), pub_date,
      SubSeq(authors, 1, Min(HashAuthorsLen, Len(authors)))>>

\* the dict _process_paper_enhanced returns for a scholarly result
ProcessPaperEnhanced(raw) ==
    [title |-> raw.title, summary |-> raw.summary,
     publication_date |-> raw.publication_date, url |-> raw.url,
     authors |-> raw.authors, category |-> raw.category,
     unique_hash |-> GenerateRobustHash(raw.title, raw.authors,
                                        raw.publication_date)]

MinTitleLen == 15
MinSummaryLen == 30
SpamIndicators == {"buy", "cheap", "free download", "click here"}

\* needle in text
Contains(text, needle) ==
    \E i \in 1..(Len(text) - Len(needle) + 1) :
        SubSeq(text, i, i + Len(needle) - 1) = needle

\* _is_quality_paper
IsQualityPaper(paper) ==
    /\ Len(paper.title) >= MinTitleLen
    /\ Len(paper.summary) >= MinSummaryLen
    /\ LET text_check == Lower(paper.title \o " " \o paper.summary)
       IN  \A indicator \in SpamIndicators : ~Contains(text_check, indicator)

\* _smart_deduplication: the loop, with its two seen sets
RECURSIVE DedupLoopHashOnly(_, _, _, _)
DedupLoopHashOnly(papers, seen_hashes, seen_titles, unique_papers) ==
    IF papers = <<>> THEN unique_papers
    ELSE LET paper == Head(papers)
         IN  IF paper.unique_hash \in seen_hashes
             THEN DedupLoopHashOnly(Tail(papers), seen_hashes, seen_titles,
                                    unique_papers)
             ELSE DedupLoopHashOnly(Tail(papers),
                                    seen_hashes \cup {paper.unique_hash},
                                    seen_titles, Append(unique_papers, paper))

RECURSIVE DedupLoopForgetsSeen(_, _, _, _)
DedupLoopForgetsSeen(papers, seen_hashes, seen_titles, unique_papers) ==
    IF papers = <<>> THEN unique_papers
    ELSE LET paper == Head(papers)
             normalized_title == NormalizeTitle(paper.title)
         IN  IF paper.unique_hash \in seen_hashes \/ normalized_title \in seen_titles
             THEN DedupLoopForgetsSeen(Tail(papers), seen_hashes, seen_titles,
                                       unique_papers)
             ELSE DedupLoopForgetsSeen(Tail(papers), {paper.unique_hash},
                                       {normalized_title},
                                       Append(unique_papers, paper))

RECURSIVE DedupLoop(_, _, _, _)
DedupLoop(papers, seen_hashes, seen_titles, unique_papers) ==
    IF papers = <<>> THEN unique_papers
    ELSE LET paper == Head(papers)
             normalized_title == NormalizeTitle(paper.title)
         IN  IF paper.unique_hash \in seen_hashes
             THEN DedupLoop(Tail(papers), seen_hashes, seen_titles, unique_papers)
             ELSE IF normalized_title \in seen_titles
             THEN DedupLoop(Tail(papers), seen_hashes, seen_titles, unique_papers)
             ELSE DedupLoop(Tail(papers),
                            seen_hashes \cup {paper.unique_hash},
                            seen_titles \cup {normalized_title},
                            Append(unique_papers, paper))

SmartDeduplication(papers) == DedupLoop(papers, {}, {}, <<>>)

\* scholarly results the model draws batches from: two spellings of one title
\* and a third that normalizes differently, two author lists, two URLs
PaperTitles == {"Graph Neural Networks", "graph  neural networks!",
                "Graph-Neural Networks"}
PaperAuthors == {"Chen, L.", "Kim, J."}
PaperUrls == {"https://a.org/1", "https://b.org/2"}

ScholarResults ==
    [title : PaperTitles, authors : PaperAuthors, url : PaperUrls,
     summary : {"We study graph models and security protocols."},
     publication_date : {1}, category : {"Machine Learning"}]

\* what _fetch_from_term can put into all_results
QualityPapers ==
    {p \in {ProcessPaperEnhanced(raw) : raw \in ScholarResults} : IsQualityPaper(p)}

\* fetch, line 254: unique_results = self._smart_deduplication(all_results)
Deduplicate ==
    /\ "once" \notin fetcher.done
    /\ fetcher' = [fetcher EXCEPT !.unique = SmartDeduplication(fetcher.all_results),
                                  !.done = @ \cup {"once"}]
    /\ UNCHANGED <<staging, articles, lastOp, ret, workers, research, svc, otps, auth>>

\* the same function applied to the batch concatenated with itself
DeduplicateDoubled ==
    /\ "twice" \notin fetcher.done
    /\ fetcher' = [fetcher EXCEPT
                       !.doubled = SmartDeduplication(fetcher.all_results
                                                         \o fetcher.all_results),
                       !.done = @ \cup {"twice"}]
    /\ UNCHANGED <<staging, articles, lastOp, ret, workers, research, svc, otps, auth>>

InitDedup ==
    /\ staging = <<>>
    /\ articles = <<>>
    /\ lastOp = "none"
    /\ ret = NoRet
    /\ workers = <<>>
    /\ research = <<>>
    /\ svc = NoSvc
    /\ otps = <<>>
    /\ auth = NoAuth
    /\ \E batch \in SeqsUpTo(QualityPapers, MaxPapers) \ {<<>>} :
          fetcher = [NoFetch EXCEPT !.who = "scholar", !.all_results = batch]

NextDedup == Deduplicate \/ DeduplicateDoubled

SpecDedup == InitDedup /\ [][NextDedup]_vars

-----------------------------------------------------------------------------
(* The fetch calls: EnhancedGoogleScholarFetcher.fetch, DevtoIngestor and    *)
(* MediumIngestor fetch_articles.  source is what the remote side answers.   *)

NumTerms == 2       \* search terms of one fetch / tags of one ingestor
MaxEntries == 2     \* entries the source returns for one term or tag

\* one result of scholarly.search_pubs: a publication, or an object whose
\* processing raises
ScholarEntries ==
    {[kind |-> "bad"]} \cup
    {[kind |-> "paper", raw |-> r] :
        r \in {x \in ScholarResults : /\ x.authors = "Chen, L."
                                      /\ x.url = "https://a.org/1"
                                      /\ x.title # "Graph-Neural Networks"}
              \cup {[title |-> "GNN survey", authors |-> "Kim, J.",
                     url |-> "https://b.org/2",
                     summary |-> "We study graph models and security protocols.",
                     publication_date |-> 2, category |-> "Computer Science"]}}

TermSources ==
    [search_raises : {FALSE}, entries : SeqsUpTo(ScholarEntries, MaxEntries)]
        \cup {[search_raises |-> TRUE, entries |-> <<>>]}

MinProcessTitleLen == 10

\* _fetch_from_term: the loop over the search results
RECURSIVE TermLoop(_, _, _)
TermLoop(entries, max_papers, results) ==
    IF entries = <<>> \/ Len(results) >= max_papers THEN results
    ELSE LET e == Head(entries)
             ok == /\ e.kind = "paper"
                   /\ Len(e.raw.title) >= MinProcessTitleLen
                   /\ IsQualityPaper(ProcessPaperEnhanced(e.raw))
         IN  TermLoop(Tail(entries), max_papers,
                      IF ok THEN Append(results, ProcessPaperEnhanced(e.raw))
                      ELSE results)

FetchFromTerm(src, max_papers) ==
    IF src.search_raises THEN <<>> ELSE TermLoop(src.entries, max_papers, <<>>)

\* sort_key of _apply_quality_filters, the bonus in tenths
SortKey(paper) ==
    <<paper.publication_date, IF paper.category # "Computer Science" THEN 1 ELSE 0>>

KeyGreater(a, b) == a[1] > b[1] \/ (a[1] = b[1] /\ a[2] > b[2])

\* list.sort(key=sort_key, reverse=True): stable, greatest key first
RECURSIVE InsertSorted(_, _)
InsertSorted(sorted, paper) ==
    IF sorted = <<>> THEN <<paper>>
    ELSE IF KeyGreater(SortKey(paper), SortKey(Head(sorted)))
    THEN <<paper>> \o sorted
    ELSE <<Head(sorted)>> \o InsertSorted(Tail(sorted), paper)

RECURSIVE SortNewestFirst(_, _)
SortNewestFirst(papers, sorted) ==
    IF papers = <<>> THEN sorted
    ELSE SortNewestFirst(Tail(papers), InsertSorted(sorted, Head(papers)))

\* _apply_quality_filters
ApplyQualityFiltersUnsorted(papers) == SelectSeq(papers, IsQualityPaper)

ApplyQualityFilters(papers) ==
    SortNewestFirst(SelectSeq(papers, IsQualityPaper), <<>>)

FirstN(q, n) == SubSeq(q, 1, Min(n, Len(q)))

NumEnhancedMock == 8

\* get_enhanced_mock_data: eight fixed papers (title and text left out)
EnhancedMockData(max_papers) ==
    FirstN([k \in 1..NumEnhancedMock |->
               [source_id |-> <<"enhanced_mock", k>>,
                unique_hash |-> <<"enhanced_mock", k, "today">>]], max_papers)

\* the loop of fetch over the search terms
RECURSIVE CollectTerms(_, _, _, _)
CollectTerms(terms, max_papers, per_term, all_results) ==
    IF terms = <<>> \/ Len(all_results) >= max_papers THEN all_results
    ELSE CollectTerms(Tail(terms), max_papers, per_term,
                      all_results \o FetchFromTerm(Head(terms), per_term))

\* EnhancedGoogleScholarFetcher.fetch
ScholarFetch(src, max_papers) ==
    IF ~src.scholarly_available THEN EnhancedMockData(max_papers)
    ELSE LET n == Len(src.terms)
             papers_per_term == IF max_papers \div n >= 1 THEN max_papers \div n ELSE 1
             all_results == CollectTerms(src.terms, max_papers, papers_per_term, <<>>)
         IN  IF src.timed_out THEN EnhancedMockData(max_papers)
             ELSE IF all_results # <<>>
             THEN FirstN(ApplyQualityFilters(SmartDeduplication(all_results)),
                         max_papers)
             ELSE EnhancedMockData(max_papers)

ScholarSources ==
    [scholarly_available : BOOLEAN, timed_out : BOOLEAN,
     terms : {q \in SeqsUpTo(TermSources, NumTerms) : Len(q) = NumTerms}]

CallScholarFetch ==
    \E src \in ScholarSources :
        /\ fetcher.who = "none"
        /\ fetcher' = [NoFetch EXCEPT !.who = "scholar", !.source = src,
                                      !.outcome = "returned",
                                      !.result = ScholarFetch(src, MaxPapers)]
        /\ UNCHANGED <<staging, articles, lastOp, ret, workers, research, svc, otps, auth>>

\* one item of a Dev.to listing / one entry of a Medium feed: a well-formed
\* one, or one that lacks a field the ingestor reads (item["title"],
\* entry.published_parsed, ...)
FeedEntries == {[kind |-> "ok", source_url |-> u] : u \in URLs}
                   \cup {[kind |-> "malformed", source_url |-> "none"]}

\* the answer to requests.get(url) for one tag: the request raises, the status
\* is not 200, or a listing
DevtoResponses ==
    [kind : {"error", "status"}, entries : {<<>>}]
        \cup [kind : {"listing"}, entries : SeqsUpTo(FeedEntries, MaxEntries)]

\* the try block of DevtoIngestor.fetch_articles for one tag: the first
\* exception ends the tag
RECURSIVE DevtoTag(_, _)
DevtoTag(entries, articles_) ==
    IF entries = <<>> THEN articles_
    ELSE IF Head(entries).kind = "malformed" THEN articles_
    ELSE DevtoTag(Tail(entries),
                  Append(articles_, [source_url |-> Head(entries).source_url,
                                     source_name |-> "Dev.to"]))

RECURSIVE DevtoFetchArticles(_, _)
DevtoFetchArticles(responses, articles_) ==
    IF responses = <<>> THEN [raised |-> FALSE, articles |-> articles_]
    ELSE DevtoFetchArticles(Tail(responses),
             IF Head(responses).kind = "listing"
             THEN DevtoTag(Head(responses).entries, articles_)
             ELSE articles_)

CallDevtoFetch ==
    \E src \in {q \in SeqsUpTo(DevtoResponses, NumTerms) : Len(q) = NumTerms} :
        LET r == DevtoFetchArticles(src, <<>>)
        IN  /\ fetcher.who = "none"
            /\ fetcher' = [NoFetch EXCEPT
                               !.who = "devto", !.source = src,
                               !.outcome = IF r.raised THEN "raised" ELSE "returned",
                               !.result = r.articles]
            /\ UNCHANGED <<staging, articles, lastOp, ret, workers, research, svc, otps, auth>>

MediumTop == 5

\* MediumIngestor.fetch_articles: nothing catches what reading an entry raises
RECURSIVE MediumFeed(_, _)
MediumFeed(entries, acc) ==
    IF entries = <<>> \/ acc.raised THEN acc
    ELSE IF Head(entries).kind = "malformed"
    THEN [raised |-> TRUE, articles |-> <<>>]
    ELSE MediumFeed(Tail(entries),
                    [acc EXCEPT !.articles =
                        Append(@, [source_url |-> Head(entries).source_url,
                                   source_name |-> "Medium"])])

RECURSIVE MediumFetchArticles(_, _)
MediumFetchArticles(feeds, acc) ==
    IF feeds = <<>> \/ acc.raised THEN acc
    ELSE MediumFetchArticles(Tail(feeds),
                             MediumFeed(FirstN(Head(feeds), MediumTop), acc))

CallMediumFetch ==
    \E src \in {q \in SeqsUpTo(SeqsUpTo(FeedEntries, MaxEntries), NumTerms) :
                    Len(q) = NumTerms} :
        LET r == MediumFetchArticles(src, [raised |-> FALSE, articles |-> <<>>])
        IN  /\ fetcher.who = "none"
            /\ fetcher' = [NoFetch EXCEPT
                               !.who = "medium", !.source = src,
                               !.outcome = IF r.raised THEN "raised" ELSE "returned",
                               !.result = r.articles]
            /\ UNCHANGED <<staging, articles, lastOp, ret, workers, research, svc, otps, auth>>

\* the caller takes the list (or the exception); the next call starts afresh
FetchConsumed ==
    /\ fetcher.who # "none"
    /\ fetcher' = NoFetch
    /\ UNCHANGED <<staging, articles, lastOp, ret, workers, research, svc, otps, auth>>

NextFetch == CallScholarFetch \/ CallDevtoFetch \/ CallMediumFetch \/ FetchConsumed

SpecFetch == Init /\ [][NextFetch]_vars

\* C10: no fetch call ends in an exception.
C10_FetchNeverRaises == fetcher.outcome # "raised"

\* the source_url of every well-formed entry of the listings, in order
IsParseable(e) == e.kind = "ok"

RECURSIVE ParseableUrls(_)
ParseableUrls(listings) ==
    IF listings = <<>> THEN <<>>
    ELSE LET ok == SelectSeq(Head(listings), IsParseable)
         IN  [n \in DOMAIN ok |-> ok[n].source_url] \o ParseableUrls(Tail(listings))

\* the listings a Dev.to / Medium fetch call read, one per tag
ListingsRead ==
    IF fetcher.who = "devto"
    THEN [n \in DOMAIN fetcher.source |-> fetcher.source[n].entries]
    ELSE [n \in DOMAIN fetcher.source |-> FirstN(fetcher.source[n], MediumTop)]

\* C23: a Dev.to or Medium fetch with an item that cannot be parsed returns
\* every other item of the fetch, those after it under the same tag included.
C23_BadItemSkippedAlone ==
    fetcher.who \in {"devto", "medium"} =>
        /\ fetcher.outcome = "returned"
        /\ [n \in DOMAIN fetcher.result |-> fetcher.result[n].source_url]
               = ParseableUrls(ListingsRead)

\* C6: deduplicating a batch concatenated with itself leaves the same
\* survivors as deduplicating the batch.
C6_DedupOfDoubledBatch ==
    {"once", "twice"} \subseteq fetcher.done => fetcher.doubled = fetcher.unique

\* a batch of three with a duplicate in it, deduplicated both ways
C6_Witness ==
    /\ fetcher.done = {"once", "twice"}
    /\ Len(fetcher.all_results) = 3
    /\ Len(fetcher.unique) = 2
    /\ fetcher.doubled = fetcher.unique

\* item i of the batch has the fingerprint or the normalized title of an
\* earlier item
SeenEarlier(batch, i) ==
    \E j \in 1..(i - 1) :
        \/ batch[j].unique_hash = batch[i].unique_hash
        \/ NormalizeTitle(batch[j].title) = NormalizeTitle(batch[i].title)

RECURSIVE FirstOccurrencesFrom(_, _)
FirstOccurrencesFrom(batch, i) ==
    IF i > Len(batch) THEN <<>>
    ELSE (IF SeenEarlier(batch, i) THEN <<>> ELSE <<batch[i]>>)
             \o FirstOccurrencesFrom(batch, i + 1)

\* C7: the survivors are exactly the items that have neither the fingerprint
\* nor the normalized title of an earlier item of the batch, in input order;
\* of two items with one normalized title and different URLs the first alone
\* survives.
C7_DedupKeepsFirstOccurrences ==
    "once" \in fetcher.done =>
        LET batch == fetcher.all_results
        IN  /\ fetcher.unique = FirstOccurrencesFrom(batch, 1)
            /\ ( /\ Len(batch) = 2
                 /\ NormalizeTitle(batch[1].title) = NormalizeTitle(batch[2].title)
                 /\ batch[1].url # batch[2].url )
                => fetcher.unique = <<batch[1]>>

\* two items spelled differently, of different authors (so of different
\* fingerprints) and URLs, with one normalized title: the first survived
C7_Witness ==
    /\ "once" \in fetcher.done
    /\ Len(fetcher.all_results) = 2
    /\ LET a == fetcher.all_results[1]
           b == fetcher.all_results[2]
       IN  /\ a.title # b.title
           /\ NormalizeTitle(a.title) = NormalizeTitle(b.title)
           /\ a.unique_hash # b.unique_hash
           /\ a.url # b.url
           /\ fetcher.unique = <<a>>

ArticlesWithUrl(arts, url) == {k \in DOMAIN arts : arts[k].source_url = url}

HasSummary(row) == row.summary # EmptySummary

-----------------------------------------------------------------------------
(* The filter stage of fetch, lines 252-255: deduplication, then the quality *)
(* filter.  The batches are lists _fetch_from_term can collect: every record *)
(* passed _is_quality_paper there; records of one paper may differ in the    *)
(* spelling of the title and in the publication date.                        *)

FilterResults ==
    [title : {"Graph Neural Networks", "graph  neural networks!"},
     authors : {"Chen, L."}, url : {"https://a.org/1"},
     summary : {"We study graph models and security protocols."},
     publication_date : {1, 2}, category : {"Machine Learning"}]
    \cup
    [title : {"Secure Protocol Design"},
     authors : {"Kim, J."}, url : {"https://b.org/2"},
     summary : {"We study graph models and security protocols."},
     publication_date : {1, 2}, category : {"Computer Science"}]

FilterPapers ==
    {p \in {ProcessPaperEnhanced(raw) : raw \in FilterResults} : IsQualityPaper(p)}

\* lines 254-255, before the [:max_papers] slice
FilterStage(papers) == ApplyQualityFilters(SmartDeduplication(papers))

\* the two functions applied the other way round
GateThenDedup(papers) == SmartDeduplication(ApplyQualityFilters(papers))

RunFilterStage ==
    /\ fetcher.who = "filter"
    /\ fetcher.done = {}
    /\ fetcher' = [fetcher EXCEPT !.filtered = FilterStage(fetcher.all_results),
                                  !.done = {"filter"}]
    /\ UNCHANGED <<staging, articles, lastOp, ret, workers, research, svc, otps, auth>>

RunFilterStageAgain ==
    /\ fetcher.who = "filter"
    /\ fetcher.done = {"filter"}
    /\ fetcher' = [fetcher EXCEPT !.again = FilterStage(fetcher.all_results),
                                  !.done = {"filter", "again"}]
    /\ UNCHANGED <<staging, articles, lastOp, ret, workers, research, svc, otps, auth>>

RunGateThenDedup ==
    /\ fetcher.who = "filter"
    /\ fetcher.done = {"filter", "again"}
    /\ fetcher' = [fetcher EXCEPT !.gate_first = GateThenDedup(fetcher.all_results),
                                  !.done = {"filter", "again", "gate_first"}]
    /\ UNCHANGED <<staging, articles, lastOp, ret, workers, research, svc, otps, auth>>

InitFilter ==
    /\ staging = <<>>
    /\ articles = <<>>
    /\ lastOp = "none"
    /\ ret = NoRet
    /\ workers = <<>>
    /\ research = <<>>
    /\ svc = NoSvc
    /\ otps = <<>>
    /\ auth = NoAuth
    /\ \E batch \in SeqsUpTo(FilterPapers, MaxPapers) \ {<<>>} :
          fetcher = [NoFetch EXCEPT !.who = "filter", !.all_results = batch]

NextFilter == RunFilterStage \/ RunFilterStageAgain \/ RunGateThenDedup

SpecFilter == InitFilter /\ [][NextFilter]_vars

\* C16: the quality filter followed by deduplication gives what
\* deduplication followed by the quality filter gives.
C16_GateAndDedupCommute ==
    "gate_first" \in fetcher.done => fetcher.gate_first = fetcher.filtered

\* position in the batch of the first record equal to paper
FirstIndex(batch, paper) == CHOOSE n \in DOMAIN batch :
    batch[n] = paper /\ \A m \in 1..(n - 1) : batch[m] # paper

-----------------------------------------------------------------------------
(* Two process_articles runs side by side.  Each candidate is handled in its *)
(* own transaction (transaction.atomic): the exists() check, the INSERT of   *)
(* the Article, then the save of the staged row, which commits.  A write is  *)
(* seen by the other run once committed.                                     *)

NumWorkers == 2

ArticleSourceUrlNotUnique == FALSE

\* the schema's unique constraint on Article.source_url
ArticleSourceUrlUnique == TRUE

IdleWorker == [pc |-> "idle", cands |-> <<>>, loaded |-> <<>>, branch |-> "none",
               pending |-> <<>>, success_count |-> 0, errors |-> 0,
               caught |-> {}]

\* the candidate worker w is at, as its queryset loaded it
CurrentPk(w) == Head(workers[w].cands)
CurrentStaged(w) == workers[w].loaded[CurrentPk(w)]

\* the loop moves on to the next candidate
Advance(wk) ==
    [wk EXCEPT !.cands = Tail(@), !.branch = "none", !.pending = <<>>,
               !.pc = IF Tail(wk.cands) = <<>> THEN "done" ELSE "check"]

\* another run holds an uncommitted INSERT for this source_url
InsertPendingElsewhere(w, url) ==
    \E v \in DOMAIN workers :
        /\ v # w
        /\ workers[v].pending # <<>>
        /\ workers[v].pending[1].source_url = url

\* lines 10-20: the queryset is evaluated when the loop starts
StartRun(w) ==
    /\ workers[w].pc = "idle"
    /\ LET cands == ArticlesToProcess(staging)
       IN  workers' = [workers EXCEPT ![w] =
                          [@ EXCEPT !.cands = cands, !.loaded = staging,
                                    !.pc = IF cands = <<>> THEN "done" ELSE "check"]]
    /\ UNCHANGED <<staging, articles, lastOp, ret, fetcher, research, svc, otps, auth>>

\* line 24
CheckExists(w) ==
    /\ workers[w].pc = "check"
    /\ workers' = [workers EXCEPT ![w] =
                      IF ArticleExists(articles, CurrentStaged(w).source_url)
                      THEN [@ EXCEPT !.pc = "save", !.branch = "skip"]
                      ELSE [@ EXCEPT !.pc = "create", !.branch = "new"]]
    /\ UNCHANGED <<staging, articles, lastOp, ret, fetcher, research, svc, otps, auth>>

\* lines 34-42: the INSERT waits for an uncommitted INSERT of the same key,
\* and fails with IntegrityError when the key is there, which rolls the
\* transaction back and is caught at line 50
CreateArticle(w) ==
    /\ workers[w].pc = "create"
    /\ LET staged == CurrentStaged(w)
       IN  /\ ArticleSourceUrlUnique => ~InsertPendingElsewhere(w, staged.source_url)
           /\ workers' = [workers EXCEPT ![w] =
                  IF ArticleSourceUrlUnique /\ ArticleExists(articles, staged.source_url)
                  THEN Advance([@ EXCEPT !.errors = @ + 1,
                                         !.caught = @ \cup {"IntegrityError"}])
                  ELSE [@ EXCEPT !.pending = <<NewArticle(staged, CurrentPk(w))>>,
                                 !.pc = "save"]]
    /\ UNCHANGED <<staging, articles, lastOp, ret, fetcher, research, svc, otps, auth>>

\* the database gives up waiting for the other run's write lock: the INSERT
\* raises, the transaction is rolled back, line 50 catches
CreateLockTimeout(w) ==
    /\ workers[w].pc = "create"
    /\ \E v \in DOMAIN workers : v # w /\ workers[v].pending # <<>>
    /\ workers' = [workers EXCEPT ![w] =
                      Advance([@ EXCEPT !.errors = @ + 1,
                                        !.caught = @ \cup {"OperationalError"}])]
    /\ UNCHANGED <<staging, articles, lastOp, ret, fetcher, research, svc, otps, auth>>

\* lines 29-31 and 45-48: the staged row is saved as loaded, with
\* processed = True, and the transaction commits
SaveAndCommit(w) ==
    /\ workers[w].pc = "save"
    /\ Len(articles) + Len(workers[w].pending) <= MaxArticles
    /\ staging' = SaveProcessed(staging, CurrentPk(w), CurrentStaged(w))
    /\ articles' = articles \o workers[w].pending
    /\ workers' = [workers EXCEPT ![w] =
                      Advance([@ EXCEPT !.success_count =
                                  IF workers[w].branch = "new" THEN @ + 1 ELSE @])]
    /\ UNCHANGED <<lastOp, ret, fetcher, research, svc, otps, auth>>

\* the database the two runs start from: a row per URL, any flags, and an
\* Article for any of the URLs
ConcStagingRows(url) ==
    [source_url : {url}, title : {"t1"}, summary : {AiSummary},
     ai_generated : {TRUE}, approved : BOOLEAN, processed : BOOLEAN]

InitConc ==
    /\ \E r1 \in ConcStagingRows("u1"), r2 \in ConcStagingRows("u2") :
          staging = <<r1, r2>>
    /\ \E promoted \in SUBSET {1, 2} :
          articles = [k \in 1..Cardinality(promoted) |->
                         LET pk == SetToSeq(promoted)[k]
                         IN  [source_url |-> IF pk = 1 THEN "u1" ELSE "u2",
                              title |-> "t1", summary |-> AiSummary,
                              staging_article |-> pk]]
    /\ lastOp = "none"
    /\ ret = NoRet
    /\ fetcher = NoFetch
    /\ workers = [w \in 1..NumWorkers |-> IdleWorker]
    /\ research = <<>>
    /\ svc = NoSvc
    /\ otps = <<>>
    /\ auth = NoAuth

NextConc ==
    \E w \in 1..NumWorkers :
        \/ StartRun(w)
        \/ CheckExists(w)
        \/ CreateArticle(w)
        \/ CreateLockTimeout(w)
        \/ SaveAndCommit(w)

SpecConc == InitConc /\ [][NextConc]_vars

\* C8: with two promotion runs interleaved step by step, the Article table
\* never holds two rows of one source_url.
C8_ConcurrentRunsCreateOneArticle ==
    \A url \in URLs : Cardinality(ArticlesWithUrl(articles, url)) <= 1

\* both runs found no Article for a URL and went on to create one: one
\* committed it, the other's INSERT was refused
C8_Witness ==
    /\ \A w \in DOMAIN workers : workers[w].pc = "done"
    /\ \E w, v \in DOMAIN workers :
          /\ w # v
          /\ workers[w].success_count >= 1
          /\ workers[v].caught = {"IntegrityError"}
          /\ \E k \in DOMAIN articles :
                /\ IsCandidate(workers[w].loaded[articles[k].staging_article])
                /\ IsCandidate(workers[v].loaded[articles[k].staging_article])
                /\ Cardinality(ArticlesWithUrl(articles, articles[k].source_url)) = 1

-----------------------------------------------------------------------------
(* process_articles.py, one run in which statements of a candidate's step    *)
(* may raise: the exists() query, the INSERT of the Article or the save of   *)
(* the staged row.                                                           *)

FailPoints == {"none", "exists", "create", "save"}

\* a statement that is not executed does not raise: with an Article of the
\* URL present the step never reaches create()
EffectiveFault(db, staged, failAt) ==
    IF failAt = "create" /\ ArticleExists(db.articles, staged.source_url)
    THEN "none" ELSE failAt

\* lines 24-48: what the step has written inside its transaction when it
\* ends, normally or at the statement that raises
TxnWritesFlagNotSaved(db, pk, staged, failAt) ==
    IF ArticleExists(db.articles, staged.source_url) THEN db
    ELSE [db EXCEPT !.articles = Append(@, NewArticle(staged, pk))]

TxnWrites(db, pk, staged, failAt) ==
    IF failAt = "none" THEN PromoteStep(db, pk, staged)
    ELSE IF failAt = "save" /\ ~ArticleExists(db.articles, staged.source_url)
    THEN [db EXCEPT !.articles = Append(@, NewArticle(staged, pk))]
    ELSE db

\* line 22, with transaction.atomic(): the tables after the block
TransactionNotAtomic(before, after, failed) == after

TransactionAtomic(before, after, failed) == IF failed THEN before ELSE after

\* lines 20-21 and 50-51: the try is inside the loop, the candidates left
\* after this one
RemainingAfterAbort(cands, failed) == IF failed THEN <<>> ELSE Tail(cands)

RemainingAfter(cands, failed) == Tail(cands)

RECURSIVE FailingLoop(_, _, _, _)
FailingLoop(cands, loaded, fails, acc) ==
    IF cands = <<>> THEN acc
    ELSE LET pk == Head(cands)
             staged == loaded[pk]
             failAt == EffectiveFault(acc.db, staged, fails[pk])
             failed == failAt # "none"
             after == TxnWrites(acc.db, pk, staged, failAt)
             tables == TransactionAtomic(acc.db, after, failed)
             outcome == IF failed THEN "failed"
                        ELSE IF ArticleExists(acc.db.articles, staged.source_url)
                        THEN "skipped" ELSE "promoted"
         IN  FailingLoop(RemainingAfter(cands, failed), loaded, fails,
                 [db |-> [after EXCEPT !.staging = tables.staging,
                                       !.articles = tables.articles],
                  outcomes |-> Append(acc.outcomes, outcome),
                  faults |-> Append(acc.faults, failAt)])

ProcessArticlesFailing ==
    \E fails \in [DOMAIN staging -> FailPoints] :
        LET cands == ArticlesToProcess(staging)
            res == FailingLoop(cands, staging, fails,
                       [db |-> [staging |-> staging, articles |-> articles,
                                success_count |-> 0],
                        outcomes |-> <<>>, faults |-> <<>>])
        IN  /\ \A i \in DOMAIN staging : ~IsCandidate(staging[i]) => fails[i] = "none"
            /\ Len(res.db.articles) <= MaxArticles
            /\ staging' = res.db.staging
            /\ articles' = res.db.articles
            /\ lastOp' = "process_articles"
            /\ ret' = [NoRet EXCEPT
                           !.count = res.db.success_count,
                           !.failed = Cardinality({n \in DOMAIN res.outcomes :
                                                      res.outcomes[n] = "failed"}),
                           !.newArticles = Len(res.db.articles) - Len(articles),
                           !.batch = cands,
                           !.outcomes = res.outcomes,
                           !.faults = res.faults]
            /\ UNCHANGED <<fetcher, workers, research, svc, otps, auth>>

\* the database a run starts from: three records, any flags, and an Article
\* for any of them
PromoteUrls == <<"u1", "u2", "u3">>

PromoteStagingRows(url) ==
    [source_url : {url}, title : {"t1"}, summary : {AiSummary},
     ai_generated : {TRUE}, approved : BOOLEAN, processed : BOOLEAN]

InitPromote ==
    /\ \E r1 \in PromoteStagingRows(PromoteUrls[1]),
          r2 \in PromoteStagingRows(PromoteUrls[2]),
          r3 \in PromoteStagingRows(PromoteUrls[3]) :
          staging = <<r1, r2, r3>>
    /\ \E promoted \in SUBSET {1, 2, 3} :
          /\ Cardinality(promoted) <= MaxArticles
          /\ articles = [k \in 1..Cardinality(promoted) |->
                            LET pk == SetToSeq(promoted)[k]
                            IN  [source_url |-> PromoteUrls[pk],
                                 title |-> "t1", summary |-> AiSummary,
                                 staging_article |-> pk]]
    /\ lastOp = "none"
    /\ ret = NoRet
    /\ fetcher = NoFetch
    /\ workers = <<>>
    /\ research = <<>>
    /\ svc = NoSvc
    /\ otps = <<>>
    /\ auth = NoAuth

NextPromote == ProcessArticlesFailing \/ MarkUnprocessed

SpecPromote == InitPromote /\ [][NextPromote]_vars

\* positions of the run's batch with a given outcome
WithOutcome(r, o) == {n \in DOMAIN r.outcomes : r.outcomes[n] = o}

\* C12: a candidate's failure does not stop the run: every candidate of the
\* batch is handled, every candidate that did not fail ends processed with an
\* Article of its URL, and the success count counts the promoted candidates
\* only.
C12_FailureDoesNotStopRun ==
    [][lastOp' = "process_articles" =>
          /\ ~ret'.raised
          /\ ret'.batch = ArticlesToProcess(staging)
          /\ DOMAIN ret'.outcomes = DOMAIN ret'.batch
          /\ \A n \in DOMAIN ret'.batch :
                ret'.outcomes[n] # "failed" =>
                    /\ staging'[ret'.batch[n]].processed
                    /\ ArticlesWithUrl(articles',
                           staging[ret'.batch[n]].source_url) # {}
          /\ ret'.count = Cardinality(WithOutcome(ret', "promoted"))
          /\ ret'.count = Len(articles') - Len(articles)
          /\ ret'.count + ret'.failed <= Len(ret'.batch)]_vars

\* the first candidate failed, the two after it were promoted
C12_Witness ==
    /\ lastOp = "process_articles"
    /\ ret.outcomes = <<"failed", "promoted", "promoted">>
    /\ ret.count = 2
    /\ ret.failed = 1

\* C13: a failed step leaves no Article of its candidate and leaves the
\* candidate's row as it was (processed = FALSE), whatever statement raised;
\* the Articles of the other candidates of the run, and those there before,
\* are kept.
C13_StepAtomicAndIndependent ==
    [][lastOp' = "process_articles" =>
          /\ \A n \in DOMAIN ret'.batch :
                LET pk == ret'.batch[n]
                IN  /\ ret'.outcomes[n] = "failed" =>
                          /\ staging'[pk] = staging[pk]
                          /\ ~staging'[pk].processed
                          /\ ArticlesWithUrl(articles', staging[pk].source_url)
                                = ArticlesWithUrl(articles, staging[pk].source_url)
                    /\ ret'.outcomes[n] = "promoted" =>
                          \E k \in DOMAIN articles' :
                              /\ k \notin DOMAIN articles
                              /\ articles'[k].staging_article = pk
          /\ Len(articles) <= Len(articles')
          /\ \A k \in DOMAIN articles : articles'[k] = articles[k]]_vars

\* a candidate promoted, then a candidate whose step raised at save(), after
\* its Article had been inserted: one new Article, not two
C13_Witness ==
    /\ lastOp = "process_articles"
    /\ \E n \in DOMAIN ret.batch :
          /\ n > 1
          /\ ret.outcomes[n - 1] = "promoted"
          /\ ret.outcomes[n] = "failed"
          /\ ret.faults[n] = "save"
          /\ ~staging[ret.batch[n]].processed
          /\ ArticlesWithUrl(articles, staging[ret.batch[n]].source_url) = {}
          /\ ArticlesWithUrl(articles, staging[ret.batch[n - 1]].source_url) # {}

\* C14: a candidate whose source_url has an Article already gets no new
\* Article, ends with processed = TRUE, is not counted as promoted and is not
\* reported as an error (unless a statement of its step raised).
C14_ExistingArticleIsSkipped ==
    [][lastOp' = "process_articles" =>
          \A n \in DOMAIN ret'.batch :
              LET pk == ret'.batch[n]
                  url == staging[pk].source_url
              IN  (ArticlesWithUrl(articles, url) # {} /\ ret'.faults[n] = "none")
                      => /\ ArticlesWithUrl(articles', url)
                               = ArticlesWithUrl(articles, url)
                         /\ staging'[pk].processed
                         /\ ret'.outcomes[n] = "skipped"
                         /\ ret'.count = Len(articles') - Len(articles)
                         /\ ret'.failed = Cardinality({m \in DOMAIN ret'.faults :
                                                         ret'.faults[m] # "none"})]_vars

\* a run whose only candidate had its Article already: nothing created,
\* nothing counted, no error, the record processed
C14_Witness ==
    /\ lastOp = "process_articles"
    /\ ret.outcomes = <<"skipped">>
    /\ ret.count = 0 /\ ret.failed = 0 /\ ret.newArticles = 0
    /\ staging[ret.batch[1]].processed
    /\ Cardinality(ArticlesWithUrl(articles, staging[ret.batch[1]].source_url)) = 1

\* C18: every Article a run creates is for a record that was approved and
\* not processed when the run selected its candidates.
C18_OnlyCandidatesPromoted ==
    [][lastOp' = "process_articles" =>
          \A k \in DOMAIN articles' :
              k \notin DOMAIN articles =>
                  LET pk == articles'[k].staging_article
                  IN  /\ pk \in DOMAIN staging
                      /\ staging[pk].approved
                      /\ ~staging[pk].processed
                      /\ articles'[k].source_url = staging[pk].source_url]_vars

\* a run promoted one record and left an unapproved record and a processed
\* record, neither with an Article, without one
C18_Witness ==
    /\ lastOp = "process_articles"
    /\ ret.outcomes = <<"promoted">>
    /\ \E i, j \in DOMAIN staging :
          /\ ~staging[i].approved /\ ~staging[i].processed
          /\ ArticlesWithUrl(articles, staging[i].source_url) = {}
          /\ staging[j].approved /\ staging[j].processed
          /\ j # ret.batch[1]
          /\ ArticlesWithUrl(articles, staging[j].source_url) = {}

\* C26: after a promotion run in which no candidate's step failed, no record
\* is approved and unprocessed, and every candidate of the run has an Article
\* with its source_url.
C26_CleanRunLeavesNoCandidate ==
    [][(lastOp' = "process_articles" /\ WithOutcome(ret', "failed") = {}) =>
          /\ \A i \in DOMAIN staging' : ~IsCandidate(staging'[i])
          /\ ret'.batch = ArticlesToProcess(staging)
          /\ \A n \in DOMAIN ret'.batch :
                ArticlesWithUrl(articles', staging[ret'.batch[n]].source_url) # {}]_vars

\* a run without failure over two candidates, one promoted and one skipped,
\* beside a record that is not approved
C26_Witness ==
    /\ lastOp = "process_articles"
    /\ Len(ret.batch) = 2
    /\ WithOutcome(ret, "failed") = {}
    /\ WithOutcome(ret, "promoted") # {} /\ WithOutcome(ret, "skipped") # {}
    /\ \A n \in DOMAIN ret.batch :
          /\ staging[ret.batch[n]].processed
          /\ ArticlesWithUrl(articles, staging[ret.batch[n]].source_url) # {}
    /\ \E i \in DOMAIN staging : ~staging[i].approved /\ ~staging[i].processed
    /\ \A i \in DOMAIN staging : ~IsCandidate(staging[i])

-----------------------------------------------------------------------------
(* Ingestion of items that differ from what is stored.  The title stands for *)
(* the fields get_or_create takes from the item as defaults (title,          *)
(* source_name, raw_content, tag_suggestions, published_at); summary,        *)
(* ai_generated, approved and processed are changed by the operator and the  *)
(* summarization run between the ingest runs.                                *)

IngestAnyTitle == IngestArticlesOf(FetchedItems)

NextIngest ==
    \/ IngestAnyTitle
    \/ MarkApproved
    \/ SummarizeArticlesView
    \/ MarkProcessed

SpecIngest == Init /\ [][NextIngest]_vars

\* C15: an ingest run leaves every stored record as it was, field by field,
\* also when an item of the batch has the record's source_url and other
\* values; a record created by the run keeps the values of the first item of
\* its URL.
C15_IngestLeavesExistingUnchanged ==
    [][lastOp' = "ingest_articles" =>
          /\ \A i \in DOMAIN staging :
                i \in DOMAIN staging' /\ staging'[i] = staging[i]
          /\ \A n \in DOMAIN ret'.batch :
                ret'.created[n] =>
                    \E i \in DOMAIN staging' :
                        /\ i \notin DOMAIN staging
                        /\ staging'[i] = NewStagingRow(ret'.batch[n])]_vars

\* an item with the URL of a stored record and another title was ingested;
\* the record, approved, summarized and processed meanwhile, is as before
C15_Witness ==
    /\ lastOp = "ingest_articles"
    /\ Len(ret.batch) = 1
    /\ ret.created = <<FALSE>>
    /\ \E i \in DOMAIN staging :
          /\ staging[i].source_url = ret.batch[1].source_url
          /\ staging[i].title # ret.batch[1].title
          /\ staging[i].approved /\ staging[i].processed
          /\ staging[i].summary = AiSummary /\ staging[i].ai_generated

-----------------------------------------------------------------------------
(* Ingestion of raw items as the sources give them: an item may carry keys   *)
(* ingest_articles does not read (here summary and approved), and storing it *)
(* may fail.                                                                  *)

RawItems ==
    {a \in [source_url : URLs, title : {"t1"}, summary : {EmptySummary, "op"},
            approved : BOOLEAN, storable : BOOLEAN] :
        a.approved <=> a.summary = "op"}

IngestRawItems == IngestArticlesOf(RawItems)

NextRaw ==
    \/ IngestRawItems
    \/ MarkApproved
    \/ SummarizeArticlesView
    \/ MarkProcessed

SpecRaw == Init /\ [][NextRaw]_vars

\* C21: a record an ingest run creates has an empty summary and approved,
\* processed and ai_generated all false, whatever the item holds.
C21_NewRecordStartsBlank ==
    [][lastOp' = "ingest_articles" =>
          \A i \in DOMAIN staging' \ DOMAIN staging :
              /\ staging'[i].summary = EmptySummary
              /\ ~staging'[i].approved
              /\ ~staging'[i].processed
              /\ ~staging'[i].ai_generated]_vars

\* an item that itself says approved and carries a summary was stored as a
\* new record, which is blank
C21_Witness ==
    /\ lastOp = "ingest_articles"
    /\ ret.created = <<TRUE>>
    /\ ret.batch[1].approved /\ ret.batch[1].summary = "op"
    /\ \E i \in DOMAIN staging :
          /\ staging[i].source_url = ret.batch[1].source_url
          /\ staging[i].summary = EmptySummary
          /\ ~staging[i].approved /\ ~staging[i].processed
          /\ ~staging[i].ai_generated

\* items of the batch whose storing raised
FailedItems(batch) == {n \in DOMAIN batch : ItemRaises(batch[n])}

\* C22: ingest_articles does not end in an exception; each item that fails to
\* be stored adds one entry to the error list, and every other item of the
\* batch has a record afterwards.
C22_IngestNeverRaises ==
    [][lastOp' = "ingest_articles" =>
          /\ ~ret'.raised
          /\ ret'.failed = Cardinality(FailedItems(ret'.batch))
          /\ \A n \in DOMAIN ret'.batch \ FailedItems(ret'.batch) :
                MatchingRows(staging', ret'.batch[n].source_url) # {}]_vars

\* the part of C22 about a run whose fetch returned a list
C22_ItemFailureIsContained ==
    [][(lastOp' = "ingest_articles" /\ ~ret'.raised) =>
          /\ ret'.failed = Cardinality(FailedItems(ret'.batch))
          /\ ret'.count = Len(staging') - Len(staging)
          /\ \A n \in DOMAIN ret'.batch \ FailedItems(ret'.batch) :
                MatchingRows(staging', ret'.batch[n].source_url) # {}]_vars

\* the first item of a batch failed, the second was stored
C22_ItemFailureWitness ==
    /\ lastOp = "ingest_articles"
    /\ ~ret.raised
    /\ Len(ret.batch) = 2
    /\ ~ret.batch[1].storable /\ ret.batch[2].storable
    /\ ret.created = <<FALSE, TRUE>>
    /\ ret.failed = 1 /\ ret.count = 1

-----------------------------------------------------------------------------
(* The summarization runs: the admin view summarize_articles_view, the admin *)
(* object action run_ai_summarization and the management command             *)
(* summarize_articles.                                                        *)

\* run_ai_summarization: obj = 0 stands for no object (all approved records)
RunAiSummarization ==
    \E obj \in {0} \cup DOMAIN staging, ok \in SUBSET (DOMAIN staging) :
        LET listed == IF obj = 0 THEN {i \in DOMAIN staging : staging[i].approved}
                      ELSE {obj}
            targets == listed \cap SummarizeTargets(staging)
        IN  /\ staging' = [i \in DOMAIN staging |->
                              IF i \in targets
                              THEN SummarizeArticle(staging[i], i \in ok)
                              ELSE staging[i]]
            /\ lastOp' = "run_ai_summarization"
            /\ ret' = [NoRet EXCEPT !.count = Cardinality(targets \cap ok),
                                    !.failed = Cardinality(targets \ ok),
                                    !.batch = SetToSeq(listed)]
            /\ UNCHANGED <<articles, fetcher, workers, research, svc, otps, auth>>

\* the names feedup/utils.py defines, and the one the command imports from it
UtilsNames == {"summarize_articles", "generate_questions_for_article",
               "get_ai_response", "ingest_articles"}

CommandImport == "summarize_article"

\* rows the command's queryset selects: approved=True, ai_generated=False
CommandTargets(st) == {i \in DOMAIN st : st[i].approved /\ ~st[i].ai_generated}

\* manage.py summarize_articles: loading the command module runs its import
SummarizeCommand ==
    \E ok \in SUBSET (DOMAIN staging) :
        IF CommandImport \notin UtilsNames
        THEN /\ ok = {}
             /\ lastOp' = "summarize_command"
             /\ ret' = [NoRet EXCEPT !.raised = TRUE]
             /\ UNCHANGED <<staging, articles, fetcher, workers, research, svc, otps, auth>>
        ELSE LET targets == CommandTargets(staging)
             IN  /\ staging' = [i \in DOMAIN staging |->
                                   IF i \in targets
                                   THEN SummarizeArticle(staging[i], i \in ok)
                                   ELSE staging[i]]
                 /\ AdminDone("summarize_command", Cardinality(targets \cap ok),
                              Cardinality(targets \ ok))

NextSummarize ==
    \/ IngestArticles
    \/ MarkApproved
    \/ SummarizeArticlesView
    \/ RunAiSummarization
    \/ SummarizeCommand

SpecSummarize == Init /\ [][NextSummarize]_vars

\* C19: a summarization run does not end in an exception; every approved
\* record without a summary (of the records the run is over) is attempted: it is summarized, or it is left as
\* it was and counted as failed; no other record is changed.
C19_SummarizationFailureIsContained ==
    [][lastOp' \in {"summarize_articles", "run_ai_summarization",
                    "summarize_command"} =>
          LET listed == IF lastOp' = "run_ai_summarization"
                        THEN {ret'.batch[n] : n \in DOMAIN ret'.batch}
                        ELSE DOMAIN staging
              targets == {i \in listed :
                              staging[i].approved /\ ~HasSummary(staging[i])}
              done == {i \in targets : /\ HasSummary(staging'[i])
                                       /\ staging'[i].ai_generated}
          IN  /\ ~ret'.raised
              /\ DOMAIN staging' = DOMAIN staging
              /\ \A i \in targets \ done : staging'[i] = staging[i]
              /\ \A i \in DOMAIN staging \ targets : staging'[i] = staging[i]
              /\ ret'.count = Cardinality(done)
              /\ ret'.failed = Cardinality(targets \ done)]_vars

\* C27 for a run nothing else writes during: the run changes only summary and
\* ai_generated, and only of approved records without a summary.
C27_AloneRunWritesOnlySummary ==
    [][lastOp' \in {"summarize_articles", "run_ai_summarization"} =>
          /\ DOMAIN staging' = DOMAIN staging
          /\ \A i \in DOMAIN staging :
                /\ staging'[i] = [staging[i] EXCEPT
                                     !.summary = staging'[i].summary,
                                     !.ai_generated = staging'[i].ai_generated]
                /\ staging'[i] # staging[i] =>
                       staging[i].approved /\ ~HasSummary(staging[i])]_vars

-----------------------------------------------------------------------------
(* The admin summarization run step by step, with the operator at work       *)
(* beside it.  The run loads its records (cands the primary keys, loaded the *)
(* objects) when the loop starts; for each one                               *)
(* without a summary summarize_articles calls the API, sets summary, prompts *)
(* and ai_generated on the loaded object and save()s the object, all of its  *)
(* fields as loaded.                                                          *)

\* article.save() without update_fields: every column is written
SaveObject(st, pk, obj) == [st EXCEPT ![pk] = obj]

\* lines 65 / 118: the queryset filter(approved=True), or [obj]
StartSummarization ==
    \E obj \in {0} \cup DOMAIN staging :
        /\ workers = <<>>
        /\ LET cands == IF obj = 0
                        THEN SetToSeq({i \in DOMAIN staging : staging[i].approved})
                        ELSE <<obj>>
           IN  workers' = <<[pc |-> "loop", cands |-> cands,
                             loaded |-> [n \in DOMAIN cands |-> staging[cands[n]]],
                             success_count |-> 0, failed |-> 0]>>
        /\ UNCHANGED <<staging, articles, lastOp, ret, fetcher, research, svc, otps, auth>>

\* one pass of the loop: the loaded object is passed over when it is not
\* approved or has a summary; otherwise summarize_articles(article) runs and,
\* when the API gave a summary (ok), saves the object
SummarizeNext ==
    \E ok \in BOOLEAN :
        /\ workers # <<>>
        /\ workers[1].cands # <<>>
        /\ LET w == workers[1]
               pk == Head(w.cands)
               article == Head(w.loaded)
               attempted == article.approved /\ article.summary = EmptySummary
           IN  /\ ~attempted => ~ok
               /\ staging' = IF attempted /\ ok
                              THEN SaveObject(staging, pk,
                                              SummarizeArticle(article, TRUE))
                              ELSE staging
               /\ workers' = <<[w EXCEPT
                                   !.cands = Tail(@),
                                   !.loaded = Tail(@),
                                   !.success_count = IF attempted /\ ok
                                                     THEN @ + 1 ELSE @,
                                   !.failed = IF attempted /\ ~ok
                                              THEN @ + 1 ELSE @]>>
        /\ UNCHANGED <<articles, lastOp, ret, fetcher, research, svc, otps, auth>>

\* the loop is over: the message to the operator
FinishSummarization ==
    /\ workers # <<>>
    /\ workers[1].cands = <<>>
    /\ workers' = <<>>
    /\ lastOp' = "summarize_articles"
    /\ ret' = [NoRet EXCEPT !.count = workers[1].success_count,
                            !.failed = workers[1].failed]
    /\ UNCHANGED <<staging, articles, fetcher, research, svc, otps, auth>>

NextSummarizeRun ==
    \/ IngestArticles
    \/ MarkApproved
    \/ MarkUnapproved
    \/ StartSummarization
    \/ SummarizeNext
    \/ FinishSummarization

SpecSummarizeRun == Init /\ [][NextSummarizeRun]_vars

\* C27: a step of an admin summarization run changes only summary and
\* ai_generated, only of a record that is approved and has no summary, and
\* never the approved or processed flag of a record.
C27_RunWritesOnlySummaryOfTargets ==
    [][(workers # <<>> /\ workers' # <<>> /\ workers' # workers) =>
          /\ DOMAIN staging' = DOMAIN staging
          /\ \A i \in DOMAIN staging :
                /\ staging'[i].approved = staging[i].approved
                /\ staging'[i].processed = staging[i].processed
                /\ staging'[i] # staging[i] =>
                       staging[i].approved /\ ~HasSummary(staging[i])]_vars

-----------------------------------------------------------------------------
(* feedup/ingestion/service.py: DataIngestionService.  A configured fetcher  *)
(* is a collaborator whose fetch() raises, returns nothing or returns a list *)
(* of items.                                                                  *)

MaxFetchers == 2        \* fetchers in research_fetchers
MaxFetched == 2         \* items one fetcher returns
MaxServicePapers == 2   \* largest max_papers the service is built with
MaxServiceRuns == 3     \* fetch_and_store_research calls in one behaviour

NumFallbackMock == 10

\* an item a fetcher returns; storable = FALSE when
\* ResearchUpdate.objects.create(**item) raises for it
ResearchItems ==
    {[unique_hash |-> "h1", source |-> "google_scholar", storable |-> TRUE],
     [unique_hash |-> "h2", source |-> "google_scholar", storable |-> TRUE],
     [unique_hash |-> "h2", source |-> "google_scholar", storable |-> FALSE]}

FetcherOutcomes ==
    [raised : {FALSE}, data : SeqsUpTo(ResearchItems, MaxFetched)]
        \cup {[raised |-> TRUE, data |-> <<>>]}

\* the fetchers of one call: a fetcher after the one that returned data is
\* not called, its outcome is left at "returned nothing"
FetcherRuns ==
    {q \in SeqsUpTo(FetcherOutcomes, MaxFetchers) :
        \A i, j \in DOMAIN q :
            (i < j /\ q[i].data # <<>>) => q[j] = [raised |-> FALSE, data |-> <<>>]}

\* _get_fallback_mock_data: mock_papers[:self.max_papers]
FallbackMockEmpty(max_papers) == <<>>

FallbackMockData(max_papers) ==
    FirstN([k \in 1..NumFallbackMock |->
               [unique_hash |-> <<"fallback_paper_1", "fallback_paper_2",
                                  "fallback_paper_3", "fallback_paper_4",
                                  "fallback_paper_5", "fallback_paper_6",
                                  "fallback_paper_7", "fallback_paper_8",
                                  "fallback_paper_9", "fallback_paper_10">>[k],
                source |-> "fallback_mock", storable |-> TRUE]],
           max_papers)

HashExistsNever(table, h) == FALSE

HashExists(table, h) == \E k \in DOMAIN table : table[k].unique_hash = h

\* _store_research_data: an item whose hash is stored is passed over, an item
\* whose create() raises is logged and passed over
RECURSIVE StoreLoop(_, _)
StoreLoop(items, acc) ==
    IF items = <<>> THEN acc
    ELSE LET item == Head(items)
         IN  StoreLoop(Tail(items),
                 IF ~HashExists(acc.table, item.unique_hash) /\ item.storable
                 THEN [table |-> Append(acc.table,
                                        [unique_hash |-> item.unique_hash,
                                         source |-> item.source]),
                       total_added |-> acc.total_added + 1]
                 ELSE acc)

StoreResearchData(table, research_data) ==
    StoreLoop(research_data, [table |-> table, total_added |-> 0])

\* one _store_research_data call made by fetch_and_store_research
StoreCall(st, research_data) ==
    LET r == StoreResearchData(st.table, research_data)
    IN  [st EXCEPT !.table = r.table,
                   !.total_added = @ + r.total_added,
                   !.calls = Append(@, [data |-> research_data,
                                        added |-> r.total_added,
                                        rows |-> Len(r.table) - Len(st.table)])]

\* lines 56-70: the loop over the fetchers, left at the first one that
\* returns data
RECURSIVE FetcherLoop(_, _)
FetcherLoop(fetchers, st) ==
    IF fetchers = <<>> THEN st
    ELSE IF Head(fetchers).raised \/ Head(fetchers).data = <<>>
    THEN FetcherLoop(Tail(fetchers), st)
    ELSE StoreCall(st, Head(fetchers).data)

\* fetch_and_store_research
FetchAndStoreResearchResult(table, fetchers, max_papers) ==
    LET start == [table |-> table, total_added |-> 0, calls |-> <<>>,
                  fallback |-> FALSE]
        looped == FetcherLoop(fetchers, start)
    IN  IF fetchers = <<>> \/ looped.total_added = 0
        THEN [StoreCall(looped, FallbackMockData(max_papers))
                 EXCEPT !.fallback = TRUE]
        ELSE looped

FetchAndStoreResearch ==
    \E max_papers \in 0..MaxServicePapers,
       fetchers \in FetcherRuns :
        LET r == FetchAndStoreResearchResult(research, fetchers, max_papers)
        IN  /\ svc.runs < MaxServiceRuns
            /\ research' = r.table
            /\ svc' = [max_papers |-> max_papers, fetchers |-> fetchers,
                       calls |-> r.calls, fallback |-> r.fallback,
                       raised |-> FALSE, total_added |-> r.total_added,
                       runs |-> svc.runs + 1]
            /\ UNCHANGED <<staging, articles, lastOp, ret, fetcher, workers,
                           otps, auth>>

NextService == FetchAndStoreResearch

SpecService == Init /\ [][NextService]_vars

\* every configured fetcher raised in the last call (and there was one)
AllFetchersRaised ==
    /\ svc.fetchers # <<>>
    /\ \A n \in DOMAIN svc.fetchers : svc.fetchers[n].raised

SomeFetcherReturnedData(s) ==
    \E n \in DOMAIN s.fetchers : s.fetchers[n].data # <<>>

\* C24: a call in which a fetcher returned data adds no fallback row to the
\* ResearchUpdate table.
C24_FallbackOnlyWithoutData ==
    [][(svc'.runs = svc.runs + 1 /\ SomeFetcherReturnedData(svc')) =>
          \A k \in DOMAIN research' \ DOMAIN research :
              research'[k].source # "fallback_mock"]_vars

\* C28: no two ResearchUpdate rows have the same unique_hash, and the count
\* every _store_research_data call returns is the number of rows it created.
C28_UniqueHashAndTrueCount ==
    /\ \A i, j \in DOMAIN research :
          research[i].unique_hash = research[j].unique_hash => i = j
    /\ \A n \in DOMAIN svc.calls : svc.calls[n].added = svc.calls[n].rows

\* a store call was handed the same hash twice and created one row
C28_Witness ==
    /\ svc.runs >= 2
    /\ \E n \in DOMAIN svc.calls :
          LET data == svc.calls[n].data
          IN  /\ Len(data) = 2
              /\ data[1].unique_hash = data[2].unique_hash
              /\ data[1].storable /\ data[2].storable
              /\ svc.calls[n].added = 1
              /\ Cardinality({k \in DOMAIN research :
                                  research[k].unique_hash = data[1].unique_hash}) = 1

-----------------------------------------------------------------------------
(* The sequential system: operator and scheduled jobs, one at a time *)

Next ==
    \/ IngestArticles
    \/ MarkApproved
    \/ MarkUnapproved
    \/ MarkProcessed
    \/ MarkUnprocessed
    \/ ClearSummary
    \/ FormSave
    \/ SummarizeArticlesView
    \/ ProcessArticles

Spec == Init /\ [][Next]_vars

-----------------------------------------------------------------------------
(* Properties of the sequential system *)

\* C1: every staging record with processed = TRUE has a non-empty summary.
C1_ProcessedHasSummary ==
    \A i \in DOMAIN staging : staging[i].processed => HasSummary(staging[i])

\* C2: no two Article rows have the same source_url.
C2_UniqueArticleUrl ==
    \A j, k \in DOMAIN articles :
        articles[j].source_url = articles[k].source_url => j = k

\* a promotion run met a candidate whose Article already existed (the record
\* had been reset by the operator) and inserted nothing
C2_Witness ==
    /\ lastOp = "process_articles"
    /\ ret.batch # <<>>
    /\ ret.newArticles = 0
    /\ \E i \in DOMAIN staging : ArticlesWithUrl(articles, staging[i].source_url) # {}

C4_OneStagingRowPerUrl ==
    /\ [](\A i, j \in DOMAIN staging :
            staging[i].source_url = staging[j].source_url => i = j)
    /\ [][lastOp' = "ingest_articles" =>
            LET batch == ret'.batch
                flags == ret'.created
                made == {n \in DOMAIN flags : flags[n]}
            IN  /\ DOMAIN flags = DOMAIN batch
                /\ \A n \in DOMAIN batch :
                      ( \/ \E i \in DOMAIN staging :
                               staging[i].source_url = batch[n].source_url
                        \/ \E m \in 1..(n - 1) :
                               batch[m].source_url = batch[n].source_url )
                      => ~flags[n]
                /\ ret'.count = Cardinality(made)
                /\ Len(staging') = Len(staging) + Cardinality(made)]_vars

\* one batch with the same source_url twice: the first item created the row,
\* the second found it
C4_Witness ==
    /\ lastOp = "ingest_articles"
    /\ Len(ret.batch) = 2
    /\ ret.batch[1].source_url = ret.batch[2].source_url
    /\ ret.created = <<TRUE, FALSE>>
    /\ ret.count = 1

\* C5: mark_processed leaves an unprocessed record without summary unprocessed
\* and marks the selected records that have a summary; the change form
\* submitted with processed ticked and an empty summary changes nothing, and no
\* form save leaves a record newly processed with an empty summary.
C5_ProcessedNeedsSummary ==
    [][ /\ lastOp' = "mark_processed" =>
              \A i \in DOMAIN staging :
                  /\ (~HasSummary(staging[i]) /\ ~staging[i].processed)
                        => ~staging'[i].processed
                  /\ (HasSummary(staging[i]) /\ \E n \in DOMAIN ret'.batch :
                                                    ret'.batch[n] = i)
                        => staging'[i].processed
        /\ lastOp' = "form_save" =>
              /\ ret'.raised => staging' = staging
              /\ \A i \in DOMAIN staging :
                    (~HasSummary(staging'[i]) /\ ~staging[i].processed)
                        => ~staging'[i].processed ]_vars

\* one selection holding a record without summary, left unprocessed, and a
\* record with a summary, marked processed
C5_Witness ==
    /\ lastOp = "mark_processed"
    /\ \E n, m \in DOMAIN ret.batch :
          /\ ~HasSummary(staging[ret.batch[n]]) /\ ~staging[ret.batch[n]].processed
          /\ HasSummary(staging[ret.batch[m]]) /\ staging[ret.batch[m]].processed
    /\ ret.failed = 1 /\ ret.count = 1

\* C9 as stated: processed = TRUE implies an Article with the same source_url.
C9_ProcessedImpliesArticle ==
    \A i \in DOMAIN staging :
        staging[i].processed => ArticlesWithUrl(articles, staging[i].source_url) # {}

\* C9 amended: the processed flag turns TRUE only in a promotion run, and then
\* an Article with the record's source_url exists, or in the admin's
\* mark_processed action or change form, and then the record has a summary.
C9_ProcessedSetByPipelineOrAdmin ==
    [][\A i \in DOMAIN staging' :
          ( /\ staging'[i].processed
            /\ (i \in DOMAIN staging => ~staging[i].processed) )
          => \/ /\ lastOp' = "process_articles"
                /\ ArticlesWithUrl(articles', staging'[i].source_url) # {}
             \/ /\ lastOp' \in {"mark_processed", "form_save"}
                /\ HasSummary(staging'[i])]_vars

\* the admin marked a record processed that has no Article
C9_Witness ==
    /\ lastOp \in {"mark_processed", "form_save"}
    /\ \E i \in DOMAIN staging :
          /\ staging[i].processed
          /\ ArticlesWithUrl(articles, staging[i].source_url) = {}

\* Article rows created for staging record pk
ArticlesOfRecord(arts, pk) == {k \in DOMAIN arts : arts[k].staging_article = pk}

\* C20: at most one Article exists for a staging record, at any time; no
\* operation removes or changes an Article, so none was created and lost; a
\* promotion run in particular leaves every existing Article as it is.
C20_OneArticlePerRecord ==
    /\ [](\A pk \in DOMAIN staging :
              Cardinality(ArticlesOfRecord(articles, pk)) <= 1)
    /\ [][/\ Len(articles) <= Len(articles')
          /\ \A k \in DOMAIN articles : articles'[k] = articles[k]
          /\ lastOp' # "process_articles" => articles' = articles]_vars

\* a promoted record was reset by the operator, edited, approved again and
\* met by a second run: its one Article is as it was created
C20_Witness ==
    /\ lastOp = "process_articles"
    /\ ret.newArticles = 0
    /\ \E n \in DOMAIN ret.batch :
          LET pk == ret.batch[n]
          IN  /\ staging[pk].processed
              /\ Cardinality(ArticlesOfRecord(articles, pk)) = 1
              /\ \E k \in ArticlesOfRecord(articles, pk) :
                    articles[k].summary # staging[pk].summary

\* records of the selection the operator reset that had been promoted
ResetPromoted(st, arts, r) ==
    {pk \in {r.batch[n] : n \in DOMAIN r.batch} : ArticlesOfRecord(arts, pk) # {}}

-----------------------------------------------------------------------------
(* uniapp/views.py: the OTP login.  RequestOTPView stores a code for an email *)
(* and mails it, VerifyOTPView exchanges a code for tokens.                   *)

Emails == {"a@uni", "b@uni"}
OtpCodes == {"123456", "654321"}
UserTypes == {"student", "faculty"}

\* the user tables: a@uni is a Student, b@uni a Faculty member
RegisteredAs == [e \in Emails |-> IF e = "a@uni" THEN "student" ELSE "faculty"]

OtpRowsOf(table, email) == {i \in DOMAIN table : table[i].email = email}

\* OTPVerification.objects.update_or_create(email=email, defaults={otp,
\* created_at}): the row of the email is rewritten, or a row is inserted
UpdateOrCreate(table, email, otp) ==
    IF OtpRowsOf(table, email) = {}
    THEN Append(table, [email |-> email, otp |-> otp, expired |-> FALSE])
    ELSE [i \in DOMAIN table |->
             IF table[i].email = email
             THEN [email |-> email, otp |-> otp, expired |-> FALSE]
             ELSE table[i]]

\* RequestOTPView.post: found = get_user_by_type_and_details finds the user
\* with the details given, otp = the code random.randint draws, mail_ok =
\* send_mail does not raise
RequestOTP ==
    \E user_type \in UserTypes, email \in Emails, details_ok \in BOOLEAN,
       otp \in OtpCodes, mail_ok \in BOOLEAN :
        LET found == details_ok /\ RegisteredAs[email] = user_type
            call == [NoAuth EXCEPT !.op = "request_otp", !.email = email,
                                   !.user_type = user_type]
        IN  /\ otps' = IF found THEN UpdateOrCreate(otps, email, otp) ELSE otps
            /\ auth' = IF ~found
                        THEN [call EXCEPT
                                  !.status = IF user_type = "student"
                                             THEN 404 ELSE 400,
                                  !.used = auth.used]
                        ELSE [call EXCEPT
                                  !.otp = otp,
                                  !.status = IF mail_ok THEN 200 ELSE 500,
                                  !.used = {u \in auth.used : u[1] # email}]
            /\ UNCHANGED <<staging, articles, lastOp, ret, fetcher, workers,
                           research, svc>>

\* OTPVerification.objects.filter(email=email, otp=str(otp)).first(): the
\* index of the row, 0 when there is none
FirstOtpEntry(table, email, otp) ==
    LET hits == {i \in DOMAIN table : table[i].email = email /\ table[i].otp = otp}
    IN  IF hits = {} THEN 0 ELSE CHOOSE i \in hits : \A j \in hits : i <= j

\* otp_entry.delete()
DeleteEntryKeeps(table, i) == table

DeleteEntry(table, i) ==
    [k \in 1..(Len(table) - 1) |-> IF k < i THEN table[k] ELSE table[k + 1]]

\* VerifyOTPView.post
VerifyOTP ==
    \E email \in Emails, otp \in OtpCodes, user_type \in UserTypes :
        LET i == FirstOtpEntry(otps, email, otp)
            valid == i # 0 /\ ~otps[i].expired
            profile == RegisteredAs[email] = user_type
            call == [NoAuth EXCEPT !.op = "verify_otp", !.email = email,
                                   !.otp = otp, !.user_type = user_type,
                                   !.replay = <<email, otp>> \in auth.used]
        IN  /\ otps' = IF valid THEN DeleteEntry(otps, i) ELSE otps
            /\ auth' = IF ~valid
                        THEN [call EXCEPT !.status = 400, !.used = auth.used]
                        ELSE IF ~profile
                        THEN [call EXCEPT !.status = 404, !.used = auth.used]
                        ELSE [call EXCEPT !.status = 200, !.tokens = TRUE,
                                          !.used = auth.used \cup {<<email, otp>>}]
            /\ UNCHANGED <<staging, articles, lastOp, ret, fetcher, workers,
                           research, svc>>

\* is_expired(): fifteen minutes have passed since the row's created_at
OtpExpires ==
    \E i \in DOMAIN otps :
        /\ ~otps[i].expired
        /\ otps' = [otps EXCEPT ![i].expired = TRUE]
        /\ UNCHANGED <<staging, articles, lastOp, ret, fetcher, workers,
                       research, svc, auth>>

NextOtp == RequestOTP \/ VerifyOTP \/ OtpExpires

SpecOtp == Init /\ [][NextOtp]_vars

\* C29: the OTP table holds at most one row per email, and a VerifyOTP call
\* that presents an email and code an earlier call accepted, with no OTP
\* requested for the email since, is rejected and issues no tokens.
C29_OtpIsSingleUse ==
    /\ \A i, j \in DOMAIN otps : otps[i].email = otps[j].email => i = j
    /\ (auth.op = "verify_otp" /\ auth.replay) =>
           auth.status = 400 /\ ~auth.tokens

\* an accepted code was presented again and refused, while the other email's
\* code is still stored
C29_Witness ==
    /\ auth.op = "verify_otp"
    /\ auth.replay
    /\ auth.status = 400 /\ ~auth.tokens
    /\ <<auth.email, auth.otp>> \in auth.used
    /\ OtpRowsOf(otps, auth.email) = {}
    /\ \E i \in DOMAIN otps : otps[i].email # auth.email

====
